---------------------------- MODULE Spec2Model ----------------------------
(***************************************************************************)
(* Model of `jx step git credentials`                                      *)
(* (pkg/cmd/step/git/credentials/step_git_credentials.go).                 *)
(*                                                                         *)
(* Strings are sequences of bytes; a byte is a one-character string, and   *)
(* the byte 0x7f is written DEL.  The Go standard library routines the     *)
(* command calls (net/url Parse and URL.String) are modelled byte by byte  *)
(* after the library, so that parsing can fail and rendering can differ    *)
(* from its input.                                                         *)
(***************************************************************************)
EXTENDS Integers, Sequences, FiniteSets, TLC

VARIABLES
    pc,                 \* position of the invocation inside Run
    env,                \* value of JX_CREDENTIALS_FROM_SECRET
    CredentialsSecret,  \* o.CredentialsSecret
    GitHubAppOwner,     \* o.GitHubAppOwner
    secret,             \* the secret returned by the lookup (Mode A), or NoValue
    cfg,                \* authConfigSvc.Config() (Mode B), or NoValue / NilConfig
    credentialList,     \* the tuples handed to createGitCredentialsFile
    warnings,           \* the warnings logged so far, oldest first
    file,               \* content of the output path: NoFile or a byte string
    result,             \* "running", "ok" or the error Run returned
    gha,                \* what IsGitHubAppMode answered: "unknown", "true", "false"
    calls               \* the collaborators consulted so far, oldest first

vars == <<pc, env, CredentialsSecret, GitHubAppOwner, secret, cfg,
          credentialList, warnings, file, result, gha, calls>>

(***************************************************************************)
(* Bounds of the model.                                                    *)
(***************************************************************************)
MaxServers == 2
MaxAuths == 2
MaxCreds == 2

(***************************************************************************)
(* Bytes and strings.                                                      *)
(***************************************************************************)
DEL == "DEL"
NL == "\n"

Lowers == <<"a","b","c","d","e","f","g","h","i","j","k","l","m",
            "n","o","p","q","r","s","t","u","v","w","x","y","z">>
Uppers == <<"A","B","C","D","E","F","G","H","I","J","K","L","M",
            "N","O","P","Q","R","S","T","U","V","W","X","Y","Z">>
Digits == {"0","1","2","3","4","5","6","7","8","9"}

Range(s) == { s[i] : i \in DOMAIN s }

isLower(c) == c \in Range(Lowers)
isUpper(c) == c \in Range(Uppers)
isAlpha(c) == isLower(c) \/ isUpper(c)
isDigit(c) == c \in Digits

\* strings.ToLower on one byte
toLowerByte(c) ==
    IF isUpper(c) THEN Lowers[CHOOSE i \in DOMAIN Uppers : Uppers[i] = c] ELSE c

\* strings.ToLower
ToLower(s) == [i \in DOMAIN s |-> toLowerByte(s[i])]

\* strings.Index for a one-byte separator: the first position, 0 when absent
Index(s, c) ==
    IF \E i \in DOMAIN s : s[i] = c
    THEN CHOOSE i \in DOMAIN s : s[i] = c /\ \A j \in 1..(i-1) : s[j] # c
    ELSE 0

\* strings.LastIndex for a one-byte separator
LastIndex(s, c) ==
    IF \E i \in DOMAIN s : s[i] = c
    THEN CHOOSE i \in DOMAIN s : s[i] = c /\ \A j \in (i+1)..Len(s) : s[j] # c
    ELSE 0

Count(s, c) == Cardinality({ i \in DOMAIN s : s[i] = c })

HasPrefix(s, p) == Len(s) >= Len(p) /\ SubSeq(s, 1, Len(p)) = p

From(s, i) == SubSeq(s, i, Len(s))

(***************************************************************************)
(* net/url, as used by GitCredentialsFileData.                             *)
(***************************************************************************)
encodePath == "encodePath"
encodeHost == "encodeHost"
encodeUserPassword == "encodeUserPassword"
encodeFragment == "encodeFragment"

NoUser == [set |-> FALSE, username |-> <<>>, password |-> <<>>]

\* url.UserPassword
UserPassword(username, password) ==
    [set |-> TRUE, username |-> username, password |-> password]

EmptyURL ==
    [Scheme |-> <<>>, Opaque |-> <<>>, User |-> NoUser, Host |-> <<>>,
     Path |-> <<>>, RawPath |-> <<>>, ForceQuery |-> FALSE,
     RawQuery |-> <<>>, Fragment |-> <<>>]

Failed == [err |-> TRUE]
Parsed(u) == [err |-> FALSE, url |-> u]

ishex(c) == isDigit(c) \/ c \in {"a","b","c","d","e","f","A","B","C","D","E","F"}

\* the bytes this model can write as %XX, with their two hex digits
HexOf ==
    (" " :> <<"2","0">>) @@ ("#" :> <<"2","3">>) @@ ("%" :> <<"2","5">>) @@
    ("/" :> <<"2","F">>) @@ (":" :> <<"3","A">>) @@ ("?" :> <<"3","F">>) @@
    ("@" :> <<"4","0">>) @@ (DEL :> <<"7","F">>)

\* unhex(h1)<<4 | unhex(h2), for the escapes the model's inputs can hold
Unhex(h1, h2) ==
    LET up == <<h1, IF isLower(h2)
                    THEN Uppers[CHOOSE i \in DOMAIN Lowers : Lowers[i] = h2]
                    ELSE h2>>
    IN  IF \E c \in DOMAIN HexOf : HexOf[c] = up
        THEN CHOOSE c \in DOMAIN HexOf : HexOf[c] = up
        ELSE "?"

\* url.shouldEscape
shouldEscape(c, mode) ==
    IF isAlpha(c) \/ isDigit(c) THEN FALSE
    ELSE IF mode = encodeHost /\
            c \in {"!","$","&","'","(",")","*","+",",",";","=",":","[","]","<",">","\""}
    THEN FALSE
    ELSE IF c \in {"-","_",".","~"} THEN FALSE
    ELSE IF c \in {"$","&","+",",","/",":",";","=","?","@"} /\ mode = encodePath
    THEN c = "?"
    ELSE IF c \in {"$","&","+",",","/",":",";","=","?","@"} /\ mode = encodeUserPassword
    THEN c \in {"@","/","?",":"}
    ELSE IF c \in {"$","&","+",",","/",":",";","=","?","@"} /\ mode = encodeFragment
    THEN FALSE
    ELSE IF mode = encodeFragment /\ c \in {"!","(",")","*"} THEN FALSE
    ELSE TRUE

RECURSIVE escapeFrom(_, _, _)
escapeFrom(s, i, mode) ==
    IF i > Len(s) THEN <<>>
    ELSE (IF shouldEscape(s[i], mode)
          THEN (IF s[i] \in DOMAIN HexOf THEN <<"%">> \o HexOf[s[i]] ELSE <<"%","?","?">>)
          ELSE <<s[i]>>) \o escapeFrom(s, i + 1, mode)

\* url.escape
escape(s, mode) == escapeFrom(s, 1, mode)

\* one decoded byte in front of the decoding of the rest
unescaped(c, r) ==
    IF r.err THEN r ELSE [err |-> FALSE, val |-> <<c>> \o r.val]

RECURSIVE unescapeFrom(_, _, _)
unescapeFrom(s, i, mode) ==
    IF i > Len(s) THEN [err |-> FALSE, val |-> <<>>]
    ELSE IF s[i] = "%"
    THEN IF i + 2 > Len(s) \/ ~ishex(s[i+1]) \/ ~ishex(s[i+2])
         THEN [err |-> TRUE, val |-> <<>>]
         ELSE IF mode = encodeHost /\ s[i+1] \in {"0","1","2","3","4","5","6","7"}
                 /\ <<s[i+1], s[i+2]>> # <<"2","5">>
         THEN [err |-> TRUE, val |-> <<>>]
         ELSE unescaped(Unhex(s[i+1], s[i+2]), unescapeFrom(s, i + 3, mode))
    ELSE IF mode = encodeHost /\ shouldEscape(s[i], encodeHost)
    THEN [err |-> TRUE, val |-> <<>>]
    ELSE unescaped(s[i], unescapeFrom(s, i + 1, mode))

\* url.unescape
unescape(s, mode) == unescapeFrom(s, 1, mode)

\* url.validEncoded
validEncoded(s, mode) ==
    \A i \in DOMAIN s :
        \/ s[i] \in {"!","$","&","'","(",")","*","+",",",";","=",":","@","[","]","%"}
        \/ ~shouldEscape(s[i], mode)

\* url.stringContainsCTLByte
stringContainsCTLByte(s) == \E i \in DOMAIN s : s[i] \in {DEL, NL}

\* url.split, with the position of the separator
splitAt(s, i, cutc) ==
    IF i = 0 THEN <<s, <<>>>>
    ELSE IF cutc THEN <<SubSeq(s, 1, i - 1), From(s, i + 1)>>
    ELSE <<SubSeq(s, 1, i - 1), From(s, i)>>

\* url.split
split(s, sep, cutc) == splitAt(s, Index(s, sep), cutc)

RECURSIVE getschemeFrom(_, _)
getschemeFrom(rawurl, i) ==
    IF i > Len(rawurl) THEN [err |-> FALSE, scheme |-> <<>>, path |-> rawurl]
    ELSE IF isAlpha(rawurl[i]) THEN getschemeFrom(rawurl, i + 1)
    ELSE IF isDigit(rawurl[i]) \/ rawurl[i] \in {"+","-","."}
    THEN IF i = 1 THEN [err |-> FALSE, scheme |-> <<>>, path |-> rawurl]
         ELSE getschemeFrom(rawurl, i + 1)
    ELSE IF rawurl[i] = ":"
    THEN IF i = 1 THEN [err |-> TRUE, scheme |-> <<>>, path |-> <<>>]
         ELSE [err |-> FALSE, scheme |-> SubSeq(rawurl, 1, i - 1),
               path |-> From(rawurl, i + 1)]
    ELSE [err |-> FALSE, scheme |-> <<>>, path |-> rawurl]

\* url.getscheme
getscheme(rawurl) == getschemeFrom(rawurl, 1)

\* url.validOptionalPort
validOptionalPort(port) ==
    port = <<>> \/ (port[1] = ":" /\ \A i \in 2..Len(port) : isDigit(port[i]))

\* url.parseHost, with the position of the last colon (hosts in brackets are
\* outside the model's inputs)
parseHostAt(host, i) ==
    IF i # 0 /\ ~validOptionalPort(From(host, i))
    THEN [err |-> TRUE, val |-> <<>>]
    ELSE unescape(host, encodeHost)

\* url.parseHost
parseHost(host) == parseHostAt(host, LastIndex(host, ":"))

\* url.validUserinfo
validUserinfo(s) ==
    \A i \in DOMAIN s :
        \/ isAlpha(s[i]) \/ isDigit(s[i])
        \/ s[i] \in {"-",".","_",":","~","!","$","&","'","(",")","*","+",",",";","=","%","@"}

\* url.parseAuthority, the authority being host only
authorityOfHost(h) ==
    IF h.err THEN [err |-> TRUE]
    ELSE [err |-> FALSE, user |-> NoUser, host |-> h.val]

\* url.parseAuthority, the userinfo holding a user name only
authorityOfUser(h, un) ==
    IF un.err THEN [err |-> TRUE]
    ELSE [err |-> FALSE, host |-> h.val,
          user |-> [set |-> TRUE, username |-> un.val, password |-> <<>>]]

\* url.parseAuthority, the userinfo holding a user name and a password
authorityOfUserPassword(h, un, pw) ==
    IF un.err \/ pw.err THEN [err |-> TRUE]
    ELSE [err |-> FALSE, host |-> h.val, user |-> UserPassword(un.val, pw.val)]

\* url.parseAuthority, the authority holding userinfo
authorityOfUserinfo(h, userinfo, up) ==
    IF h.err THEN [err |-> TRUE]
    ELSE IF ~validUserinfo(userinfo) THEN [err |-> TRUE]
    ELSE IF Index(userinfo, ":") = 0
    THEN authorityOfUser(h, unescape(userinfo, encodeUserPassword))
    ELSE authorityOfUserPassword(h, unescape(up[1], encodeUserPassword),
                                 unescape(up[2], encodeUserPassword))

\* url.parseAuthority, with the position of the last "@"
parseAuthorityAt(authority, i) ==
    IF i = 0 THEN authorityOfHost(parseHost(authority))
    ELSE authorityOfUserinfo(parseHost(From(authority, i + 1)),
                             SubSeq(authority, 1, i - 1),
                             split(SubSeq(authority, 1, i - 1), ":", TRUE))

\* url.parseAuthority
parseAuthority(authority) == parseAuthorityAt(authority, LastIndex(authority, "@"))

\* URL.setPath, with the unescaped path
setPathTo(u, p, path) ==
    IF path.err THEN Failed
    ELSE Parsed([u EXCEPT !.Path = path.val,
                          !.RawPath = IF escape(path.val, encodePath) = p
                                      THEN <<>> ELSE p])

\* URL.setPath
setPath(u, p) == setPathTo(u, p, unescape(p, encodePath))

\* url.parse, the authority parsed
parseWithAuthority(u, auth, rest) ==
    IF auth.err THEN Failed
    ELSE setPath([u EXCEPT !.User = auth.user, !.Host = auth.host], rest)

\* url.parse, the authority split from the path
parseAuthorityAndPath(u, ar) == parseWithAuthority(u, parseAuthority(ar[1]), ar[2])

\* url.parse, scheme and query taken off (viaRequest = false)
parseRest(u, rest) ==
    IF ~HasPrefix(rest, <<"/">>) /\ u.Scheme # <<>>
    THEN Parsed([u EXCEPT !.Opaque = rest])
    ELSE IF ~HasPrefix(rest, <<"/">>) /\ Index(rest, ":") > 0
            /\ (Index(rest, "/") = 0 \/ Index(rest, ":") < Index(rest, "/"))
    THEN Failed
    ELSE IF (u.Scheme # <<>> \/ ~HasPrefix(rest, <<"/","/","/">>))
            /\ HasPrefix(rest, <<"/","/">>)
    THEN parseAuthorityAndPath(u, split(From(rest, 3), "/", FALSE))
    ELSE setPath(u, rest)

\* url.parse, the query split off
parseQuery(scheme, rq) ==
    parseRest([EmptyURL EXCEPT !.Scheme = scheme, !.RawQuery = rq[2]], rq[1])

\* url.parse, the scheme taken off
parseAfterScheme(scheme, rest) ==
    IF rest # <<>> /\ rest[Len(rest)] = "?" /\ Count(rest, "?") = 1
    THEN parseRest([EmptyURL EXCEPT !.Scheme = scheme, !.ForceQuery = TRUE],
                   SubSeq(rest, 1, Len(rest) - 1))
    ELSE parseQuery(scheme, split(rest, "?", TRUE))

\* url.parse, the scheme found
parseScheme(gs) ==
    IF gs.err THEN Failed ELSE parseAfterScheme(ToLower(gs.scheme), gs.path)

\* url.parse(rawurl, viaRequest = false)
parse(rawurl) ==
    IF stringContainsCTLByte(rawurl) THEN Failed
    ELSE IF rawurl = <<"*">> THEN Parsed([EmptyURL EXCEPT !.Path = <<"*">>])
    ELSE parseScheme(getscheme(rawurl))

\* url.Parse, the fragment unescaped
parseFragment(p, frag) ==
    IF frag.err THEN Failed ELSE Parsed([p.url EXCEPT !.Fragment = frag.val])

\* url.Parse, the part before the fragment parsed
parseWithFragment(p, frag) ==
    IF p.err THEN Failed
    ELSE IF frag = <<>> THEN p
    ELSE parseFragment(p, unescape(frag, encodeFragment))

\* url.Parse, the fragment cut off
parseSplit(uf) == parseWithFragment(parse(uf[1]), uf[2])

\* url.Parse
Parse(rawurl) == parseSplit(split(rawurl, "#", TRUE))

\* URL.EscapedPath, with the unescaped RawPath
escapedPathOf(u, p) ==
    IF u.RawPath # <<>> /\ validEncoded(u.RawPath, encodePath)
       /\ ~p.err /\ p.val = u.Path
    THEN u.RawPath
    ELSE IF u.Path = <<"*">> THEN <<"*">>
    ELSE escape(u.Path, encodePath)

\* URL.EscapedPath
EscapedPath(u) == escapedPathOf(u, unescape(u.RawPath, encodePath))

\* Userinfo.String
UserinfoString(ui) ==
    escape(ui.username, encodeUserPassword) \o
    (IF ui.set THEN <<":">> \o escape(ui.password, encodeUserPassword) ELSE <<>>)

\* URL.String, what is written before the path
urlAuthority(u) ==
    IF u.Scheme # <<>> \/ u.Host # <<>> \/ u.User # NoUser
    THEN (IF u.Host # <<>> \/ u.Path # <<>> \/ u.User # NoUser
          THEN <<"/","/">> ELSE <<>>)
         \o (IF u.User # NoUser THEN UserinfoString(u.User) \o <<"@">> ELSE <<>>)
         \o escape(u.Host, encodeHost)
    ELSE <<>>

\* URL.String, scheme, authority and path
urlBody(u, buf, path) ==
    buf
    \o (IF path # <<>> /\ path[1] # "/" /\ u.Host # <<>> THEN <<"/">> ELSE <<>>)
    \o (IF buf = <<>> /\ Index(path, ":") > 0
           /\ Index(SubSeq(path, 1, Index(path, ":") - 1), "/") = 0
        THEN <<".","/">> ELSE <<>>)
    \o path

\* URL.String
URLString(u) ==
    (IF u.Scheme # <<>> THEN u.Scheme \o <<":">> ELSE <<>>)
    \o (IF u.Opaque # <<>> THEN u.Opaque
        ELSE urlBody(u, urlAuthority(u), EscapedPath(u)))
    \o (IF u.ForceQuery \/ u.RawQuery # <<>> THEN <<"?">> \o u.RawQuery ELSE <<>>)
    \o (IF u.Fragment # <<>> THEN <<"#">> \o escape(u.Fragment, encodeFragment)
        ELSE <<>>)

(***************************************************************************)
(* Data of the command.                                                    *)
(***************************************************************************)
NoValue == [none |-> TRUE]
NilConfig == [nil |-> TRUE]
NoFile == [exists |-> FALSE]
FileOf(data) == [exists |-> TRUE, data |-> data]

\* type credentials struct
Credentials(user, password, serviceURL) ==
    [user |-> user, password |-> password, serviceURL |-> serviceURL]

\* auth.UserAuth, the fields the command reads
UserAuth(username, apiToken, bearerToken, password, owner) ==
    [Username |-> username, ApiToken |-> apiToken, BearerToken |-> bearerToken,
     Password |-> password, GithubAppOwner |-> owner]

\* auth.AuthServer: URL, Users and the position of the current user (0: none)
AuthServer(url, users, current) ==
    [URL |-> url, Users |-> users, Current |-> current]

\* AuthServer.CurrentAuth: the server's current user auth, NoValue when it has none
CurrentAuth(server) ==
    IF server.Current = 0 THEN NoValue ELSE server.Users[server.Current]

InvalidURLWarning(url) == [kind |-> "InvalidURL", url |-> url]
EmptyAuthWarning(url) == [kind |-> "EmptyAuth", url |-> url]

http == <<"h","t","t","p">>
https == <<"h","t","t","p","s">>

(***************************************************************************)
(* GitCredentialsFileData: the lines and the warnings of one tuple, then   *)
(* the whole list in order.                                                *)
(***************************************************************************)
\* a variant that writes a URL once, whatever its scheme
linesOfURLOnce(u) == URLString(u) \o <<NL>>

\* the lines written for one parsed URL carrying the tuple's user and password
linesOfURL(u) ==
    URLString(u) \o <<NL>> \o
    (IF u.Scheme = http THEN URLString([u EXCEPT !.Scheme = https]) \o <<NL>>
     ELSE <<>>)

\* the body of the loop over the tuples, the service URL parsed
fileDataOfParsed(creds, p) ==
    IF p.err
    THEN [data |-> <<>>, warnings |-> <<InvalidURLWarning(creds.serviceURL)>>]
    ELSE [data |-> linesOfURL([p.url EXCEPT
                                 !.User = UserPassword(creds.user, creds.password)]),
          warnings |-> <<>>]

\* the body of the loop over the tuples
fileDataOfCreds(creds) == fileDataOfParsed(creds, Parse(creds.serviceURL))

\* a variant that returns at the first service URL that does not parse
appendFileDataUntilInvalid(one, rest) ==
    IF one.warnings # <<>> THEN one
    ELSE [data |-> one.data \o rest.data, warnings |-> one.warnings \o rest.warnings]

\* the buffer and the log after one more tuple
appendFileData(one, rest) ==
    [data |-> one.data \o rest.data, warnings |-> one.warnings \o rest.warnings]

RECURSIVE fileDataFrom(_, _)
fileDataFrom(credentials, i) ==
    IF i > Len(credentials) THEN [data |-> <<>>, warnings |-> <<>>]
    ELSE appendFileData(fileDataOfCreds(credentials[i]),
                        fileDataFrom(credentials, i + 1))

\* the buffer returned with a nil error
fileDataResult(r) == [data |-> r.data, warnings |-> r.warnings, err |-> "nil"]

GitCredentialsFileData(credentials) == fileDataResult(fileDataFrom(credentials, 1))

(***************************************************************************)
(* CreateGitCredentialsFromAuthService.                                    *)
(***************************************************************************)
\* a variant that takes the current user auth whatever the owner
authsOfCurrent(owner, server) ==
    IF CurrentAuth(server) = NoValue THEN <<>> ELSE <<CurrentAuth(server)>>

\* the user auths of one server that the loop goes through
authsOf(owner, server) ==
    IF owner # <<>> THEN server.Users
    ELSE IF CurrentAuth(server) = NoValue THEN <<>>
    ELSE <<CurrentAuth(server)>>

\* a variant that prefers the password to the bearer token
passwordOfPasswordFirst(gitAuth) ==
    IF gitAuth.ApiToken # <<>> THEN gitAuth.ApiToken
    ELSE IF gitAuth.Password # <<>> THEN gitAuth.Password
    ELSE gitAuth.BearerToken

\* the secret of one user auth: API token, else bearer token, else password
passwordOf(gitAuth) ==
    IF gitAuth.ApiToken # <<>> THEN gitAuth.ApiToken
    ELSE IF gitAuth.BearerToken # <<>> THEN gitAuth.BearerToken
    ELSE gitAuth.Password

\* a variant that skips a user auth only when user name and secret are both empty
credentialOfSecretBothEmpty(owner, server, gitAuth, username, password) ==
    IF owner # <<>> /\ gitAuth.GithubAppOwner # owner
    THEN [list |-> <<>>, warnings |-> <<>>]
    ELSE IF username = <<>> /\ password = <<>>
    THEN [list |-> <<>>, warnings |-> <<EmptyAuthWarning(server.URL)>>]
    ELSE [list |-> <<Credentials(username, password, server.URL)>>,
          warnings |-> <<>>]

\* a variant that logs a warning for a user auth of another owner
credentialOfSecretWarningOthers(owner, server, gitAuth, username, password) ==
    IF (owner # <<>> /\ gitAuth.GithubAppOwner # owner)
           \/ username = <<>> \/ password = <<>>
    THEN [list |-> <<>>, warnings |-> <<EmptyAuthWarning(server.URL)>>]
    ELSE [list |-> <<Credentials(username, password, server.URL)>>,
          warnings |-> <<>>]

\* the body of the loop over the user auths of one server, the secret resolved
credentialOfSecret(owner, server, gitAuth, username, password) ==
    IF owner # <<>> /\ gitAuth.GithubAppOwner # owner
    THEN [list |-> <<>>, warnings |-> <<>>]
    ELSE IF username = <<>> \/ password = <<>>
    THEN [list |-> <<>>, warnings |-> <<EmptyAuthWarning(server.URL)>>]
    ELSE [list |-> <<Credentials(username, password, server.URL)>>,
          warnings |-> <<>>]

\* the body of the loop over the user auths of one server
credentialOfAuth(owner, server, gitAuth) ==
    credentialOfSecret(owner, server, gitAuth, gitAuth.Username, passwordOf(gitAuth))

\* a variant that puts the later tuples first
appendCredentialsReversed(one, rest) ==
    [list |-> rest.list \o one.list, warnings |-> one.warnings \o rest.warnings]

\* the list and the log after one more user auth or server
appendCredentials(one, rest) ==
    [list |-> one.list \o rest.list, warnings |-> one.warnings \o rest.warnings]

RECURSIVE credentialsOfAuths(_, _, _, _)
credentialsOfAuths(owner, server, auths, j) ==
    IF j > Len(auths) THEN [list |-> <<>>, warnings |-> <<>>]
    ELSE appendCredentials(credentialOfAuth(owner, server, auths[j]),
                           credentialsOfAuths(owner, server, auths, j + 1))

RECURSIVE credentialsOfServers(_, _, _)
credentialsOfServers(owner, servers, i) ==
    IF i > Len(servers) THEN [list |-> <<>>, warnings |-> <<>>]
    ELSE appendCredentials(
             credentialsOfAuths(owner, servers[i], authsOf(owner, servers[i]), 1),
             credentialsOfServers(owner, servers, i + 1))

\* the list returned with a nil error
credentialsResult(r) == [list |-> r.list, warnings |-> r.warnings, err |-> "nil"]

CreateGitCredentialsFromAuthService(owner, config) ==
    IF config = NilConfig
    THEN [list |-> <<>>, warnings |-> <<>>, err |-> "no git auth config found"]
    ELSE credentialsResult(credentialsOfServers(owner, config.Servers, 1))


(***************************************************************************)
(* The inputs the model draws from.                                        *)
(***************************************************************************)
SeqsUpTo(S, n) == UNION { [1..k -> S] : k \in 0..n }

Acme == <<"a","c","m","e">>
Other == <<"o","t","h","e","r">>
EnvSecret == <<"e","n","v">>
FlagSecret == <<"f","l","a","g">>

\* service URLs: every prefix followed by a host with and without the other
\* parts, and the two spellings of http followed by every rest
SchemePrefixes ==
    { <<"h","t","t","p",":">>, <<"h","t","t","p","s",":">>,
      <<"H","T","T","P",":">>, <<"H","t","t","p",":">>,
      <<"f","t","p",":">>, <<>>, <<":">> }
Rests ==
    { <<"/","/","h">>, <<"/","/","h","/","a"," ","b">>, <<"/","/","h"," ","h">>,
      <<"/","/","o","@","h",":","8","0","/","p","?","q","#","f">>, <<"h">>, <<>> }
HttpPrefixes == { <<"h","t","t","p",":">>, <<"H","T","T","P",":">> }
HostRests ==
    { <<"/","/","h">>, <<"/","/","o","@","h",":","8","0","/","p","?","q","#","f">> }
URLs ==
    { p \o r : p \in SchemePrefixes, r \in HostRests }
    \cup { p \o r : p \in HttpPrefixes, r \in Rests }

HttpURL == <<"h","t","t","p",":","/","/","h">>
HttpsURL == <<"h","t","t","p","s",":","/","/","h">>
BadURL == <<":","/","/","h">>

\* the tuples GitCredentialsFileData is applied to on its own
RenderCreds ==
    { Credentials(<<"u">>, <<"p">>, url) : url \in URLs }
    \cup { Credentials(<<>>, <<>>, url) : url \in {<<>>, HttpURL} }
    \cup { Credentials(<<"a","@","b">>, <<"p",":","w">>, HttpsURL) }
RenderLists == SeqsUpTo(RenderCreds, MaxCreds)

\* the secrets the lookup of Mode A can find
SecretData ==
    [user : {<<>>, <<"b","o","t">>}, token : {<<>>, <<"t","o","k">>},
     url : {<<>>, HttpURL, HttpsURL, BadURL, <<"H","t","t","p",":","/","/","h">>}]
EmptySecretData == [user |-> <<>>, token |-> <<>>, url |-> <<>>]

\* user auths: every combination of the three secret fields, user name and owner
UserAuths ==
    { UserAuth(n, a, b, p, o) :
        n \in {<<>>, <<"u">>}, a \in {<<>>, <<"a">>}, b \in {<<>>, <<"b">>},
        p \in {<<>>, <<"p">>}, o \in {Acme, Other} }
\* user auths of four shapes (two well-formed, one without a user name, one
\* without a secret) under each owner
SelAuths ==
    { UserAuth(<<"u">>, <<"a">>, <<>>, <<>>, o) : o \in {Acme, Other} }
    \cup { UserAuth(<<"u">>, <<>>, <<>>, <<"p">>, o) : o \in {Acme, Other} }
    \cup { UserAuth(<<>>, <<"a">>, <<>>, <<>>, o) : o \in {Acme, Other} }
    \cup { UserAuth(<<"u">>, <<>>, <<>>, <<>>, o) : o \in {Acme, Other} }
\* the user auths of a whole invocation: two well-formed ones of the same owner
\* and one of another owner
RunAuths ==
    { UserAuth(<<"u">>, <<"a">>, <<>>, <<>>, Acme),
      UserAuth(<<"v">>, <<>>, <<>>, <<"p">>, Acme),
      UserAuth(<<"w">>, <<>>, <<"b">>, <<>>, Other) }

\* how many user auths each server holds: at most MaxServers servers and
\* MaxAuths user auths in all
RECURSIVE Sum(_)
Sum(ns) == IF ns = <<>> THEN 0 ELSE ns[1] + Sum(Tail(ns))
Shapes == { ns \in SeqsUpTo(0..MaxAuths, MaxServers) : Sum(ns) <= MaxAuths }
CurrentsOf(shape) ==
    { cur \in [DOMAIN shape -> 0..MaxAuths] : \A i \in DOMAIN shape : cur[i] <= shape[i] }

\* the configuration of the given shape, server URLs, user auths (those of the
\* first server first) and current users
ConfigOf(shape, urls, users, currents) ==
    [Servers |->
        [i \in DOMAIN shape |->
            AuthServer(urls[i],
                       SubSeq(users, Sum(SubSeq(shape, 1, i - 1)) + 1,
                              Sum(SubSeq(shape, 1, i))),
                       currents[i])]]

OldFile == FileOf(<<"o","l","d",NL>>)

(***************************************************************************)
(* Run, one action per step of the invocation.                             *)
(***************************************************************************)
Return(r) == pc' = "done" /\ result' = r

\* a variant in which the flag takes precedence over the environment
EnvOverrideFlagFirst ==
    /\ pc = "start"
    /\ CredentialsSecret' = IF CredentialsSecret # <<>> THEN CredentialsSecret ELSE env
    /\ pc' = "outfile"
    /\ UNCHANGED <<env, GitHubAppOwner, secret, cfg, credentialList, warnings, file,
                   result, gha, calls>>

\* Run, the override of the secret name by the environment
EnvOverride ==
    /\ pc = "start"
    /\ CredentialsSecret' = IF env # <<>> THEN env ELSE CredentialsSecret
    /\ pc' = "outfile"
    /\ UNCHANGED <<env, GitHubAppOwner, secret, cfg, credentialList, warnings, file,
                   result, gha, calls>>

\* a variant that creates the output file along with its directory
DetermineOutputFileCreating ==
    /\ pc = "outfile"
    /\ calls' = Append(calls, "MkdirAll")
    /\ \E ok \in BOOLEAN :
         IF ok
         THEN /\ pc' = IF CredentialsSecret # <<>> THEN "kube" ELSE "gha"
              /\ file' = FileOf(<<>>)
              /\ UNCHANGED result
         ELSE Return("MkdirError") /\ UNCHANGED file
    /\ UNCHANGED <<env, CredentialsSecret, GitHubAppOwner, secret, cfg, credentialList,
                   warnings, gha>>

\* determineOutputFile: the directory is made, or making it fails
DetermineOutputFile ==
    /\ pc = "outfile"
    /\ calls' = Append(calls, "MkdirAll")
    /\ \E ok \in BOOLEAN :
         IF ok
         THEN /\ pc' = IF CredentialsSecret # <<>> THEN "kube" ELSE "gha"
              /\ UNCHANGED result
         ELSE Return("MkdirError")
    /\ UNCHANGED <<env, CredentialsSecret, GitHubAppOwner, secret, cfg, credentialList,
                   warnings, file, gha>>

\* Mode A: KubeClientAndDevNamespace
KubeClient ==
    /\ pc = "kube"
    /\ calls' = Append(calls, "KubeClientAndDevNamespace")
    /\ \E ok \in BOOLEAN :
         IF ok THEN pc' = "getsecret" /\ UNCHANGED result
         ELSE Return("KubeClientError")
    /\ UNCHANGED <<env, CredentialsSecret, GitHubAppOwner, secret, cfg, credentialList,
                   warnings, file, gha>>

\* a variant that takes the token for the service URL and the URL for the token
credsOfSecretSwapped(data) == Credentials(data.user, data.url, data.token)

\* the tuple Run builds from the secret's data
credsOfSecret(data) == Credentials(data.user, data.token, data.url)

\* Mode A: the secret lookup and the tuple built from it.  A lookup that
\* reports not-found hands back a secret without data.
GetSecret ==
    /\ pc = "getsecret"
    /\ calls' = Append(calls, "Secrets.Get")
    /\ \/ \E data \in SecretData :
            /\ secret' = [found |-> TRUE, Data |-> data]
            /\ credentialList' = <<credsOfSecret(data)>>
            /\ pc' = "write"
            /\ UNCHANGED result
       \/ /\ secret' = [found |-> FALSE, Data |-> EmptySecretData]
          /\ credentialList' = <<credsOfSecret(EmptySecretData)>>
          /\ pc' = "write"
          /\ UNCHANGED result
       \/ /\ Return("LookupError")
          /\ UNCHANGED <<secret, credentialList>>
    /\ UNCHANGED <<env, CredentialsSecret, GitHubAppOwner, cfg, warnings, file, gha>>

\* Mode B: IsGitHubAppMode, and the early return without an owner
IsGitHubAppMode ==
    /\ pc = "gha"
    /\ calls' = Append(calls, "IsGitHubAppMode")
    /\ \/ /\ Return("GitHubAppModeError")
          /\ UNCHANGED gha
       \/ \E g \in {"true", "false"} :
            /\ gha' = g
            /\ IF g = "true" /\ GitHubAppOwner = <<>>
               THEN Return("ok")
               ELSE pc' = "svc" /\ UNCHANGED result
    /\ UNCHANGED <<env, CredentialsSecret, GitHubAppOwner, secret, cfg, credentialList,
                   warnings, file>>

\* Mode B: the auth config service, from the constructor the mode selects
AuthConfigService ==
    /\ pc = "svc"
    /\ calls' = Append(calls, IF gha = "true" THEN "GitAuthConfigServiceGitHubMode"
                              ELSE "GitAuthConfigService")
    /\ \E ok \in BOOLEAN :
         IF ok THEN pc' = "resolve" /\ UNCHANGED result
         ELSE Return("AuthConfigServiceError")
    /\ UNCHANGED <<env, CredentialsSecret, GitHubAppOwner, secret, cfg, credentialList,
                   warnings, file, gha>>

\* Mode B: CreateGitCredentialsFromAuthService on what Config() returns
\* Run, what follows the call of CreateGitCredentialsFromAuthService
CreatedCredentials(r) ==
    IF r.err # "nil"
    THEN /\ Return("ConfigurationError")
         /\ UNCHANGED <<credentialList, warnings>>
    ELSE /\ credentialList' = r.list
         /\ warnings' = warnings \o r.warnings
         /\ pc' = "write"
         /\ UNCHANGED result

\* Run, the call of CreateGitCredentialsFromAuthService on configuration c
CreateCredentialsOf(c) ==
    /\ pc = "resolve"
    /\ cfg' = c
    /\ CreatedCredentials(CreateGitCredentialsFromAuthService(GitHubAppOwner, c))
    /\ UNCHANGED <<env, CredentialsSecret, GitHubAppOwner, secret, file, gha, calls>>

\* Mode B: the service holds no configuration
CreateCredentialsNil == CreateCredentialsOf(NilConfig)

\* Mode B: the service holds a configuration over the given user auths and URLs
CreateCredentials(auths, urls) ==
    /\ pc = "resolve"
    /\ \E shape \in Shapes :
         \E us \in [DOMAIN shape -> urls], users \in [1..Sum(shape) -> auths],
            currents \in CurrentsOf(shape) :
              CreateCredentialsOf(ConfigOf(shape, us, users, currents))

\* Mode B: the service holds one server with one user auth, of any content
CreateCredentialsOfOne ==
    /\ pc = "resolve"
    /\ \E g \in UserAuths, u \in {HttpURL, HttpsURL, <<>>}, current \in 0..1 :
         CreateCredentialsOf([Servers |-> <<AuthServer(u, <<g>>, current)>>])

\* a variant that leaves the file alone when there is nothing to write
WriteFileUnlessEmpty(r) ==
    /\ warnings' = warnings \o r.warnings
    /\ IF r.err # "nil"
       THEN /\ Return("RenderError")
            /\ UNCHANGED <<file, calls>>
       ELSE IF r.data = <<>>
       THEN /\ Return("ok")
            /\ UNCHANGED <<file, calls>>
       ELSE /\ calls' = Append(calls, "WriteFile")
            /\ \/ file' = FileOf(r.data) /\ Return("ok")
               \/ file' \in {file, FileOf(<<>>)} /\ Return("WriteError")

\* createGitCredentialsFile: the data is rendered, then written; a write that
\* fails leaves the old content or a truncated file
WriteFile(r) ==
    /\ warnings' = warnings \o r.warnings
    /\ IF r.err # "nil"
       THEN /\ Return("RenderError")
            /\ UNCHANGED <<file, calls>>
       ELSE /\ calls' = Append(calls, "WriteFile")
            /\ \/ file' = FileOf(r.data) /\ Return("ok")
               \/ file' \in {file, FileOf(<<>>)} /\ Return("WriteError")

createGitCredentialsFile ==
    /\ pc = "write"
    /\ WriteFile(GitCredentialsFileData(credentialList))
    /\ UNCHANGED <<env, CredentialsSecret, GitHubAppOwner, secret, cfg, credentialList,
                   gha>>

RunFromAuthService == CreateCredentials(RunAuths, {HttpURL, BadURL})
ResolveFromAuthService == CreateCredentials(SelAuths, {HttpURL, HttpsURL})

Init ==
    /\ pc = "start"
    /\ env \in {<<>>, EnvSecret}
    /\ CredentialsSecret \in {<<>>, FlagSecret}
    /\ GitHubAppOwner \in {<<>>, Acme}
    /\ secret = NoValue
    /\ cfg = NoValue
    /\ credentialList = <<>>
    /\ warnings = <<>>
    /\ file \in {NoFile, OldFile}
    /\ result = "running"
    /\ gha = "unknown"
    /\ calls = <<>>

Next ==
    \/ EnvOverride
    \/ DetermineOutputFile
    \/ KubeClient
    \/ GetSecret
    \/ IsGitHubAppMode
    \/ AuthConfigService
    \/ RunFromAuthService
    \/ CreateCredentialsNil
    \/ createGitCredentialsFile

Spec == Init /\ [][Next]_vars

\* GitCredentialsFileData on its own: createGitCredentialsFile on any list
InitRender ==
    /\ pc = "write"
    /\ env = <<>>
    /\ CredentialsSecret = <<>>
    /\ GitHubAppOwner = <<>>
    /\ secret = NoValue
    /\ cfg = NoValue
    /\ credentialList \in RenderLists
    /\ warnings = <<>>
    /\ file = NoFile
    /\ result = "running"
    /\ gha = "unknown"
    /\ calls = <<>>

SpecRender == InitRender /\ [][createGitCredentialsFile]_vars

\* CreateGitCredentialsFromAuthService on its own, under either owner filter
InitResolve ==
    /\ pc = "resolve"
    /\ env = <<>>
    /\ CredentialsSecret = <<>>
    /\ GitHubAppOwner \in {<<>>, Acme}
    /\ secret = NoValue
    /\ cfg = NoValue
    /\ credentialList = <<>>
    /\ warnings = <<>>
    /\ file = NoFile
    /\ result = "running"
    /\ gha = "unknown"
    /\ calls = <<>>

NextResolve ==
    \/ ResolveFromAuthService
    \/ CreateCredentialsOfOne
    \/ CreateCredentialsNil

SpecResolve == InitResolve /\ [][NextResolve]_vars


(***************************************************************************)
(* Definitions the properties are stated with.                             *)
(***************************************************************************)
\* the lines of a buffer in which every line ends with a newline
NewlineAt(data, k) ==
    CHOOSE i \in DOMAIN data :
        data[i] = NL /\ Cardinality({ j \in 1..i : data[j] = NL }) = k
Lines(data) ==
    [k \in 1..Count(data, NL) |->
        SubSeq(data, (IF k = 1 THEN 0 ELSE NewlineAt(data, k - 1)) + 1,
               NewlineAt(data, k) - 1)]

RECURSIVE Flatten(_)
Flatten(ss) == IF ss = <<>> THEN <<>> ELSE ss[1] \o Flatten(Tail(ss))

InRange(x, s) == \E i \in DOMAIN s : s[i] = x

\* position pairs <<server, user auth>> in the order of the configuration
Before(p, q) == p[1] < q[1] \/ (p[1] = q[1] /\ p[2] < q[2])
InOrder(P) ==
    [n \in 1..Cardinality(P) |->
        CHOOSE p \in P : Cardinality({ q \in P : Before(q, p) }) = n - 1]
AuthAt(config, p) == config.Servers[p[1]].Users[p[2]]
AllAuths(config) ==
    { <<i, j>> : i \in 1..MaxServers, j \in 1..MaxAuths } \cap
    { p \in Nat \X Nat : p[1] \in DOMAIN config.Servers
                         /\ p[2] \in DOMAIN config.Servers[p[1]].Users }

\* the user auths the selection mode picks: the current one of each server
\* without an owner filter, those tagged with the owner under an owner filter
Selected(owner, config) ==
    { p \in AllAuths(config) :
        IF owner = <<>> THEN p[2] = config.Servers[p[1]].Current
        ELSE AuthAt(config, p).GithubAppOwner = owner }

\* the first non-empty string of a priority list, empty when there is none
FirstNonEmpty(fields) ==
    IF \E k \in DOMAIN fields : fields[k] # <<>>
    THEN fields[CHOOSE k \in DOMAIN fields :
                    fields[k] # <<>> /\ \A m \in 1..(k-1) : fields[m] = <<>>]
    ELSE <<>>
SecretOf(g) == FirstNonEmpty(<<g.ApiToken, g.BearerToken, g.Password>>)
WellFormedAuth(g) ==
    g.Username # <<>> /\ (g.ApiToken # <<>> \/ g.BearerToken # <<>> \/ g.Password # <<>>)

\* the tuples of the well-formed selected user auths, in the order of the
\* configuration
ExpectedTuples(owner, config) ==
    LET W == InOrder({ p \in Selected(owner, config) : WellFormedAuth(AuthAt(config, p)) })
    IN  [n \in DOMAIN W |->
            Credentials(AuthAt(config, W[n]).Username, SecretOf(AuthAt(config, W[n])),
                        config.Servers[W[n][1]].URL)]

URLParses(creds) == ~Parse(creds.serviceURL).err

\* the rendering of the tuples of a list whose service URL parses
RenderingOf(list) ==
    LET good == SelectSeq(list, URLParses)
    IN  Flatten([n \in DOMAIN good |-> fileDataOfCreds(good[n]).data])

Called(name) == InRange(name, calls)
ModeA == secret # NoValue
ModeB == cfg # NoValue /\ cfg # NilConfig
Untouched == file \in {NoFile, OldFile} /\ ~Called("WriteFile")

PreWriteErrors ==
    {"MkdirError", "KubeClientError", "LookupError", "GitHubAppModeError",
     "AuthConfigServiceError", "ConfigurationError"}

(***************************************************************************)
(* C1.  Run writes the credentials file only as its final step: the file   *)
(* changes in no step but the write that ends the invocation, and whenever *)
(* Run has returned an error raised before the write (directory creation,  *)
(* kube client, secret lookup, GitHub App mode detection, auth config      *)
(* service, absent configuration) the file is as it was and WriteFile has  *)
(* not been called.                                                        *)
(***************************************************************************)
C1_WriteIsFinalStep ==
    /\ [](result \in PreWriteErrors => pc = "done" /\ Untouched)
    /\ [][file' # file =>
            pc = "write" /\ pc' = "done" /\ result' \in {"ok", "WriteError"}]_vars

C1_Witness ==
    result = "ConfigurationError" /\ cfg = NilConfig /\ file = OldFile

(***************************************************************************)
(* C2 as stated: whenever Run has returned nil, a credentials file has     *)
(* been written and its content is exactly the rendering of the            *)
(* well-formed subset of the input credentials.                            *)
(***************************************************************************)
InputTuples ==
    IF ModeA THEN <<credsOfSecret(secret.Data)>>
    ELSE IF ModeB THEN ExpectedTuples(GitHubAppOwner, cfg)
    ELSE <<>>

C2_Original ==
    result = "ok" => Called("WriteFile") /\ file = FileOf(RenderingOf(InputTuples))

(***************************************************************************)
(* C2 amended: whenever Run has returned nil, either it returned early     *)
(* (GitHub App mode, no owner, no secret name), having written nothing, or *)
(* a credentials file has been written whose content is exactly the        *)
(* rendering, in order, of the input credentials that are well-formed:     *)
(* in Mode A the secret's tuple if its URL parses, in Mode B the selected  *)
(* user auths with a user name and a secret whose server URL parses.       *)
(***************************************************************************)
EarlyReturn == gha = "true" /\ GitHubAppOwner = <<>> /\ CredentialsSecret = <<>>

C2_FileIsRenderingUnlessEarlyReturn ==
    result = "ok" =>
        IF EarlyReturn THEN Untouched /\ ~ModeA /\ ~ModeB
        ELSE /\ Called("WriteFile")
             /\ ModeA \/ ModeB
             /\ file = FileOf(RenderingOf(InputTuples))

C2_Witness ==
    /\ result = "ok" /\ ModeB /\ GitHubAppOwner = Acme
    /\ Len(cfg.Servers) = 2
    /\ cfg.Servers[1].URL = BadURL /\ cfg.Servers[2].URL = HttpURL
    /\ Len(cfg.Servers[1].Users) = 1 /\ Len(cfg.Servers[2].Users) = 1
    /\ WellFormedAuth(cfg.Servers[1].Users[1]) /\ WellFormedAuth(cfg.Servers[2].Users[1])
    /\ Len(Lines(file.data)) = 2


(***************************************************************************)
(* C3 as stated: for every tuple whose service URL parses,                 *)
(* GitCredentialsFileData writes two consecutive lines when the scheme as  *)
(* written in the URL is exactly the lower-case string http (the second    *)
(* line differing from the first only in its scheme being https), and one  *)
(* line for every other scheme, upper- and mixed-case spellings of http    *)
(* included.                                                               *)
(***************************************************************************)
\* the scheme as the service URL spells it
WrittenScheme(creds) == getscheme(split(creds.serviceURL, "#", TRUE)[1]).scheme

LinesAsStated(creds) ==
    IF ~URLParses(creds) THEN 0 ELSE IF WrittenScheme(creds) = http THEN 2 ELSE 1
LinesAmended(creds) ==
    IF ~URLParses(creds) THEN 0
    ELSE IF ToLower(WrittenScheme(creds)) = http THEN 2 ELSE 1

\* the number of lines before those of tuple i, tuple k having count[k] lines
LinesBefore(count, i) == Sum(SubSeq(count, 1, i - 1))

\* lines l1, l2 are the same URL under scheme http, then under scheme https
HttpThenHttps(l1, l2) ==
    /\ HasPrefix(l1, http \o <<":">>)
    /\ l2 = https \o From(l1, Len(http) + 1)

\* the lines of the file are, tuple after tuple, as many as count says, a pair
\* being http then https and a single line being of another scheme
LinesFollow(count) ==
    LET ls == Lines(file.data)
    IN  /\ Len(ls) = Sum(count)
        /\ \A i \in DOMAIN count :
             /\ count[i] = 2 =>
                  HttpThenHttps(ls[LinesBefore(count, i) + 1], ls[LinesBefore(count, i) + 2])
             /\ count[i] = 1 =>
                  ~HasPrefix(ls[LinesBefore(count, i) + 1], http \o <<":">>)

C3_Original ==
    result = "ok" =>
        LinesFollow([i \in DOMAIN credentialList |-> LinesAsStated(credentialList[i])])

(***************************************************************************)
(* C3 amended: for every tuple whose service URL parses,                   *)
(* GitCredentialsFileData writes two consecutive lines when the scheme of  *)
(* the URL is http in any spelling (parsing lower-cases the scheme): the   *)
(* first with scheme http, the second differing from it only in its scheme *)
(* being https; for every other scheme, https included, it writes exactly  *)
(* one line.                                                               *)
(***************************************************************************)
C3_HttpInAnyCaseIsDuplicated ==
    result = "ok" =>
        LinesFollow([i \in DOMAIN credentialList |-> LinesAmended(credentialList[i])])

C3_Witness ==
    /\ result = "ok"
    /\ Len(credentialList) = 2
    /\ credentialList[1].serviceURL = <<"H","T","T","P",":","/","/","h">>
    /\ credentialList[2].serviceURL = HttpsURL
    /\ Len(Lines(file.data)) = 3

(***************************************************************************)
(* C4.  Soft skip in GitCredentialsFileData: a tuple whose service URL     *)
(* fails to parse contributes no line and exactly one warning naming its   *)
(* URL, no error is returned, and the data written is the data of the list *)
(* with the unparsable tuples taken out.                                   *)
(***************************************************************************)
URLFails(creds) == ~URLParses(creds)

C4_SoftSkip ==
    pc = "done" =>
        LET bad == SelectSeq(credentialList, URLFails)
            good == SelectSeq(credentialList, URLParses)
        IN  /\ result \in {"ok", "WriteError"}
            /\ warnings = [n \in DOMAIN bad |-> InvalidURLWarning(bad[n].serviceURL)]
            /\ result = "ok" =>
                 /\ file = FileOf(GitCredentialsFileData(good).data)
                 /\ Len(Lines(file.data)) =
                      Sum([n \in DOMAIN good |->
                              Len(Lines(fileDataOfCreds(good[n]).data))])

C4_Witness ==
    /\ result = "ok"
    /\ Len(credentialList) = 2
    /\ URLFails(credentialList[1]) /\ URLParses(credentialList[2])
    /\ Len(warnings) = 1
    /\ Len(Lines(file.data)) = 2

(***************************************************************************)
(* C5 as stated: after CreateGitCredentialsFromAuthService on a non-nil    *)
(* configuration, warnings plus returned tuples number the user auths      *)
(* considered: the current auth of each server that has one without an     *)
(* owner filter, all user auths of every server under an owner filter.     *)
(***************************************************************************)
Resolved == pc = "write" /\ ModeB

ConsideredAsStated ==
    IF GitHubAppOwner = <<>> THEN Selected(GitHubAppOwner, cfg) ELSE AllAuths(cfg)

C5_Original ==
    Resolved => Len(warnings) + Len(credentialList) = Cardinality(ConsideredAsStated)

(***************************************************************************)
(* C5 amended: after CreateGitCredentialsFromAuthService on a non-nil      *)
(* configuration, warnings plus returned tuples number the user auths      *)
(* selected: the current auth of each server that has one without an owner *)
(* filter, and under an owner filter the user auths whose owner tag equals *)
(* the filter (the others are skipped without a warning).                  *)
(***************************************************************************)
C5_WarningsPlusTuplesAreSelected ==
    Resolved =>
        Len(warnings) + Len(credentialList) = Cardinality(Selected(GitHubAppOwner, cfg))

C5_Witness ==
    /\ Resolved
    /\ GitHubAppOwner = Acme
    /\ Cardinality(AllAuths(cfg)) = 2
    /\ Cardinality(Selected(GitHubAppOwner, cfg)) = 1
    /\ Len(warnings) = 1

(***************************************************************************)
(* C6.  The list CreateGitCredentialsFromAuthService returns is a          *)
(* subsequence of the tuples of all user auths taken server by server and, *)
(* within a server, user auth by user auth; the lines of the file written  *)
(* from it are the lines of its tuples in the order of the list.           *)
(***************************************************************************)
RECURSIVE IsSubseq(_, _)
IsSubseq(a, b) ==
    IF a = <<>> THEN TRUE
    ELSE IF b = <<>> THEN FALSE
    ELSE IF a[1] = b[1] THEN IsSubseq(Tail(a), Tail(b))
    ELSE IsSubseq(a, Tail(b))

AllTuples(config) ==
    LET A == InOrder(AllAuths(config))
    IN  [n \in DOMAIN A |->
            Credentials(AuthAt(config, A[n]).Username, SecretOf(AuthAt(config, A[n])),
                        config.Servers[A[n][1]].URL)]

C6_OrderPreserved ==
    (ModeB /\ pc \in {"write", "done"}) =>
        /\ IsSubseq(credentialList, AllTuples(cfg))
        /\ result = "ok" =>
             Lines(file.data) =
                 Flatten([n \in DOMAIN credentialList |->
                             Lines(fileDataOfCreds(credentialList[n]).data)])

C6_Witness ==
    /\ ModeB /\ result = "ok"
    /\ Len(credentialList) = 2
    /\ credentialList[1] # credentialList[2]
    /\ Len(cfg.Servers) = 1
    /\ Len(Lines(file.data)) = 4

(***************************************************************************)
(* C7.  Selection in CreateGitCredentialsFromAuthService: without an owner *)
(* filter a server contributes the tuple of its current user auth and      *)
(* nothing else, a server without a current auth contributing nothing and  *)
(* raising no error; under an owner filter a server contributes one tuple  *)
(* for each of its user auths tagged with that owner that has a user name  *)
(* and a secret, whichever is current, and none for another tag.           *)
(***************************************************************************)
\* the well-formed user auths of server i that the selection mode picks
PickedOf(i) ==
    { p \in Selected(GitHubAppOwner, cfg) : p[1] = i /\ WellFormedAuth(AuthAt(cfg, p)) }

C7_Selection ==
    (ModeB /\ pc # "resolve") =>
        /\ pc = "write" /\ result = "running"
        /\ Len(credentialList) = Cardinality(UNION { PickedOf(i) : i \in DOMAIN cfg.Servers })
        /\ \A i \in DOMAIN cfg.Servers :
             LET picked == InOrder(PickedOf(i))
                 before == Cardinality(UNION { PickedOf(k) : k \in 1..(i-1) })
             IN  /\ GitHubAppOwner = <<>> =>
                       /\ Len(picked) <= 1
                       /\ cfg.Servers[i].Current = 0 => picked = <<>>
                       /\ \A n \in DOMAIN picked : picked[n][2] = cfg.Servers[i].Current
                 /\ GitHubAppOwner # <<>> =>
                       \A n \in DOMAIN picked :
                           AuthAt(cfg, picked[n]).GithubAppOwner = GitHubAppOwner
                 /\ \A n \in DOMAIN picked :
                       /\ credentialList[before + n].user = AuthAt(cfg, picked[n]).Username
                       /\ credentialList[before + n].serviceURL = cfg.Servers[i].URL

C7_Witness ==
    /\ Resolved
    /\ GitHubAppOwner = Acme
    /\ Len(cfg.Servers) = 1
    /\ cfg.Servers[1].Current = 0
    /\ Len(cfg.Servers[1].Users) = 2
    /\ Len(credentialList) = 2

(***************************************************************************)
(* C8.  The secret of every returned tuple is the first non-empty value    *)
(* among API token, bearer token and password of its user auth, in that    *)
(* order.                                                                  *)
(***************************************************************************)
C8_SecretFallback ==
    Resolved =>
        LET W == InOrder({ p \in Selected(GitHubAppOwner, cfg) :
                             WellFormedAuth(AuthAt(cfg, p)) })
        IN  /\ Len(credentialList) = Len(W)
            /\ \A n \in DOMAIN W :
                 credentialList[n].password = SecretOf(AuthAt(cfg, W[n]))

C8_Witness ==
    /\ Resolved
    /\ Len(cfg.Servers) = 1 /\ Len(cfg.Servers[1].Users) = 1
    /\ cfg.Servers[1].Users[1].ApiToken = <<>>
    /\ cfg.Servers[1].Users[1].BearerToken = <<"b">>
    /\ cfg.Servers[1].Users[1].Password = <<"p">>
    /\ Len(credentialList) = 1
    /\ credentialList[1].password = <<"b">>

(***************************************************************************)
(* C9.  Mode A: when the secret lookup finds the secret or reports         *)
(* not-found, exactly one tuple (user, token and url of the secret's data, *)
(* empty strings for what is absent) is handed to the renderer unfiltered, *)
(* whatever fields are empty; not-found is no error and goes on with       *)
(* all-empty fields.                                                       *)
(***************************************************************************)
C9_SingleSecretTuple ==
    ModeA =>
        /\ credentialList =
             <<Credentials(secret.Data.user, secret.Data.token, secret.Data.url)>>
        /\ ~secret.found => credentialList = <<Credentials(<<>>, <<>>, <<>>)>>
        /\ pc \in {"write", "done"}
        /\ result \in {"running", "ok", "WriteError"}
        /\ pc = "done" => Called("WriteFile")

C9_Witness ==
    /\ ModeA /\ ~secret.found
    /\ result = "ok"
    /\ file = FileOf(<<"/","/",":","@",NL>>)

(***************************************************************************)
(* C10.  Mode dispatch: the effective secret name is the environment value *)
(* when that is non-empty and the flag value otherwise; with a non-empty   *)
(* effective name only Mode A runs (neither IsGitHubAppMode nor an auth    *)
(* config service is consulted), with an empty one only Mode B runs (no    *)
(* secret lookup), and no invocation runs both.                            *)
(***************************************************************************)
ModeACalled == Called("KubeClientAndDevNamespace") \/ Called("Secrets.Get") \/ ModeA
ModeBCalled ==
    \/ Called("IsGitHubAppMode") \/ Called("GitAuthConfigService")
    \/ Called("GitAuthConfigServiceGitHubMode") \/ cfg # NoValue

C10_ModeDispatch ==
    /\ [][pc = "start" =>
            CredentialsSecret' = IF env # <<>> THEN env ELSE CredentialsSecret]_vars
    /\ [][pc # "start" => CredentialsSecret' = CredentialsSecret]_vars
    /\ [](pc # "start" /\ CredentialsSecret # <<>> => ~ModeBCalled)
    /\ [](pc # "start" /\ CredentialsSecret = <<>> => ~ModeACalled)
    /\ [](pc = "start" => ~ModeACalled /\ ~ModeBCalled)
    /\ [](pc = "done" /\ result \in {"ok", "WriteError"} => ModeACalled \/ ModeBCalled)

C10_Witness ==
    /\ pc = "done" /\ result = "ok"
    /\ env = EnvSecret /\ CredentialsSecret = EnvSecret
    /\ Called("Secrets.Get") /\ ~ModeBCalled

(***************************************************************************)
(* C11 as stated: every tuple CreateGitCredentialsFromAuthService returns  *)
(* has a non-empty user, a non-empty secret and a non-empty service URL    *)
(* that is the URL of the server it was taken from; a user auth whose user *)
(* name or resolved secret is empty is never in the list.                  *)
(***************************************************************************)
\* the selected user auths that have a user name and a secret, in input order
Included ==
    InOrder({ p \in Selected(GitHubAppOwner, cfg) : WellFormedAuth(AuthAt(cfg, p)) })

\* the returned tuples are those of the included user auths, one each, with
\* user and secret non-empty and the URL of the user auth's server
TuplesOfIncluded ==
    /\ Len(credentialList) = Len(Included)
    /\ \A n \in DOMAIN Included :
         /\ credentialList[n].user # <<>>
         /\ credentialList[n].password # <<>>
         /\ credentialList[n].user = AuthAt(cfg, Included[n]).Username
         /\ credentialList[n].serviceURL = cfg.Servers[Included[n][1]].URL

C11_Original ==
    Resolved =>
        /\ TuplesOfIncluded
        /\ \A n \in DOMAIN credentialList : credentialList[n].serviceURL # <<>>

(***************************************************************************)
(* C11 amended: every tuple CreateGitCredentialsFromAuthService returns    *)
(* has a non-empty user and a non-empty secret, and its service URL is the *)
(* URL of the server it was taken from, which is not checked and may be    *)
(* empty; a user auth whose user name or resolved secret is empty is never *)
(* in the list.                                                            *)
(***************************************************************************)
C11_TuplesHaveUserAndSecret == Resolved => TuplesOfIncluded

C11_Witness ==
    /\ Resolved
    /\ Len(cfg.Servers) = 1
    /\ cfg.Servers[1].URL = <<>>
    /\ cfg.Servers[1].Users[1].Username = <<"u">>
    /\ cfg.Servers[1].Users[1].ApiToken = <<>>
    /\ cfg.Servers[1].Users[1].Password = <<"p">>
    /\ credentialList = <<Credentials(<<"u">>, SecretOf(cfg.Servers[1].Users[1]), <<>>)>>

=============================================================================
